---- MODULE Spec2Model ----
(***************************************************************************)
(* Model of src/bot.py: the MediaWiki client (WikiAPI), the fuzzy-search   *)
(* cascade (WikiAPI.fuzzy_search) and the three slash-command handlers     *)
(* that drive it (wiki_command, wikisearch_command, wikirandom_command).   *)
(*                                                                         *)
(* A handler is a coroutine; it is modelled one await point at a time, so  *)
(* that several invocations interleave the way asyncio interleaves them.   *)
(* Each action is one client call together with all the synchronous code   *)
(* that follows it up to the next await.                                   *)
(*                                                                         *)
(* Abstractions:                                                           *)
(*  - a page title is a number in 1..NumTitles; a query is a number in     *)
(*    Queries; fuzz.WRatio(query, title) is read from a table that covers  *)
(*    both sides of the two thresholds (60 and 85), equal scores and 0;    *)
(*  - one HTTP exchange is a record resp: its kind says whether the        *)
(*    request raised, answered with a status other than 200, answered 200  *)
(*    with a payload the parsing code tolerates, or answered 200 with a    *)
(*    payload on which the parsing code raises;                            *)
(*  - the remote wiki answers a list request with pairwise distinct titles *)
(*    (MediaWiki lists a page once): any subset of its pages, in ascending *)
(*    or in descending order of page number;                               *)
(*  - wiki.titles are the pages of the remote wiki and wiki.faults the     *)
(*    ways in which one of its exchanges can go wrong.                     *)
(***************************************************************************)
EXTENDS Integers, Sequences, FiniteSets, TLC

NumTitles == 6
NumTitlesConc == 2

ExtractLimit == 5
Threshold == 60
Confident == 85

Procs == {1, 2}
Queries == {1, 2}
Cmds == {"wiki", "wikisearch", "wikirandom"}

Titles == 1..NumTitles
ConcTitles == 1..NumTitlesConc

VARIABLES pc, cmd, query, sess, log, page, title, results, stage2, stage3,
          delivered, raised, openSessions, nextSession, wiki

vars == <<pc, cmd, query, sess, log, page, title, results, stage2, stage3,
          delivered, raised, openSessions, nextSession, wiki>>

----------------------------------------------------------------------------
(* Sequences helpers *)

RECURSIVE Ascending(_)
Ascending(S) ==
  IF S = {} THEN <<>>
  ELSE LET m == CHOOSE x \in S : \A y \in S : x <= y
       IN  <<m>> \o Ascending(S \ {m})

RECURSIVE Descending(_)
Descending(S) ==
  IF S = {} THEN <<>>
  ELSE LET m == CHOOSE x \in S : \A y \in S : x >= y
       IN  <<m>> \o Descending(S \ {m})

Listings(S) == {Ascending(T) : T \in SUBSET S} \cup {Descending(T) : T \in SUBSET S}

----------------------------------------------------------------------------
(* Fuzzy Ranking Engine: rapidfuzz fuzz.WRatio and process.extract *)

ScoreTable ==
  <<  <<59, 90, 60, 85, 60, 0>>,
      <<84, 30, 100, 84, 59, 61>>  >>

WRatio(q, t) == ScoreTable[q][((t - 1) % Len(ScoreTable[q])) + 1]

BestIdx(q, choices, idxs) ==
  CHOOSE i \in idxs : \A j \in idxs :
      \/ WRatio(q, choices[i]) > WRatio(q, choices[j])
      \/ WRatio(q, choices[i]) = WRatio(q, choices[j]) /\ i <= j

RECURSIVE ExtractFrom(_, _, _, _)
ExtractFrom(q, choices, idxs, n) ==
  IF n = 0 \/ idxs = {} THEN <<>>
  ELSE LET i == BestIdx(q, choices, idxs)
       IN  <<[choice |-> choices[i], score |-> WRatio(q, choices[i]), index |-> i]>>
             \o ExtractFrom(q, choices, idxs \ {i}, n - 1)

extract(q, choices, limit) == ExtractFrom(q, choices, DOMAIN choices, limit)

----------------------------------------------------------------------------
(* The remote wiki: what one HTTP exchange can produce.                    *)
(* kind = "neterr"  : session.get raises (connection error)                *)
(*        "non200"  : resp.status /= 200                                   *)
(*        "bad"     : status 200, body is not JSON or not of the container *)
(*                    type the parsing code indexes into; parsing raises   *)
(*        "missing" : status 200, JSON lacks the expected keys; the .get   *)
(*                    defaults and the len check absorb it                 *)
(*        "notfound": status 200, the page id is "-1"                      *)
(*        "ok"      : status 200 and a well-formed payload                 *)

AllFaults == {"neterr", "non200", "bad", "missing"}

ConcFaults == {"neterr"}

CatLists == {<<>>, <<"Blocks">>}

ListResp(w) ==
  {[kind |-> k, titles |-> <<>>] : k \in w.faults}
    \cup {[kind |-> "ok", titles |-> s] : s \in Listings(w.titles)}

PageResp(w) == {[kind |-> k, titles |-> <<>>] : k \in w.faults \cup {"notfound", "ok"}}

RandomResp(w) ==
  {[kind |-> k, titles |-> <<>>] : k \in w.faults}
    \cup {[kind |-> "ok", titles |-> <<t>>] : t \in w.titles}

CatResp(w) ==
  {[kind |-> k, titles |-> <<>>, cats |-> <<>>] : k \in w.faults}
    \cup {[kind |-> "ok", titles |-> <<>>, cats |-> c] : c \in CatLists}

----------------------------------------------------------------------------
(* WikiAPI: the result of each client method on a given exchange.          *)
(* None is Python's None.                                                  *)

None == [none |-> TRUE]

Raises(resp) == resp.kind \in {"neterr", "bad"}

(* faulty variant of search: the API order is not kept *)
searchReversed(resp) ==
  IF resp.kind = "ok"
  THEN [i \in 1..Len(resp.titles) |->
          [title |-> resp.titles[Len(resp.titles) + 1 - i],
           description |-> <<"desc", resp.titles[Len(resp.titles) + 1 - i]>>,
           url |-> <<"api", resp.titles[Len(resp.titles) + 1 - i]>>]]
  ELSE <<>>

search(resp) ==
  IF resp.kind = "ok"
  THEN [i \in 1..Len(resp.titles) |->
          [title |-> resp.titles[i],
           description |-> <<"desc", resp.titles[i]>>,
           url |-> <<"api", resp.titles[i]>>]]
  ELSE <<>>

search_full(resp) ==
  IF resp.kind = "ok"
  THEN [i \in 1..Len(resp.titles) |->
          [title |-> resp.titles[i],
           description |-> <<"snippet", resp.titles[i]>>,
           url |-> <<"w", resp.titles[i]>>]]
  ELSE <<>>

get_all_pages(resp) == IF resp.kind = "ok" THEN resp.titles ELSE <<>>

get_page_extract(key, resp) ==
  IF resp.kind = "ok" THEN [title |-> key, url |-> <<"w", key>>] ELSE None

get_categories(resp) == IF resp.kind = "ok" THEN resp.cats ELSE <<>>

----------------------------------------------------------------------------
(* WikiAPI.fuzzy_search: the synchronous parts of the cascade              *)

(* faulty variant of KeepStage2: the threshold filter is missing *)
KeepStage2Any(match) == TRUE

KeepStage2(match) == match.score >= Threshold

Stage2(q, all_pages) ==
  LET matches == extract(q, all_pages, ExtractLimit)
      kept == SelectSeq(matches, KeepStage2)
  IN  [i \in 1..Len(kept) |->
         [title |-> kept[i].choice,
          description |-> <<"Coincidencia", kept[i].score>>,
          url |-> <<"w", kept[i].choice>>,
          score |-> kept[i].score]]

FirstWithTitle(rs, t) ==
  rs[CHOOSE i \in 1..Len(rs) : rs[i].title = t /\ \A j \in 1..(i - 1) : rs[j].title # t]

Scored(r, s) ==
  [title |-> r.title, description |-> r.description, url |-> r.url, score |-> s]

(* faulty variant of Stage3: every result is scored, none is re-ordered *)
(* or dropped                                                          *)
Stage3Unranked(q, rs) ==
  [i \in 1..Len(rs) |-> Scored(rs[i], WRatio(q, rs[i].title))]

Stage3(q, rs) ==
  LET titles == [i \in 1..Len(rs) |-> rs[i].title]
      matches == extract(q, titles, ExtractLimit)
  IN  [i \in 1..Len(matches) |->
         Scored(FirstWithTitle(rs, matches[i].choice), matches[i].score)]

(* faulty variant of NoResults: the emptiness test always passes *)
NoResultsAlways(rs) == TRUE

(* `if not results:` *)
NoResults(rs) == rs = <<>>

(* faulty variant of Escalate: an empty stage is attempted again *)
EscalateRetry(stage) == stage

(* the block of fuzzy_search that follows an empty stage *)
Escalate(stage) ==
  CASE stage = "search" -> "allpages"
    [] stage = "allpages" -> "searchfull"

GetScore(r, default) == IF "score" \in DOMAIN r THEN r.score ELSE default

IsConfident(rs) == GetScore(rs[1], 0) >= Confident

----------------------------------------------------------------------------
(* Session and delivery bookkeeping                                        *)

(* faulty variant of NewSession: one session for every invocation *)
NewSessionShared(n) == 1

NewSession(n) == n

CloseSession(open, s) == open \ {s}

PageOutcome(pg, cats) == [kind |-> "page", page |-> pg, cats |-> cats]

ListOutcome(rs) == [kind |-> "list", list |-> rs]

NotFoundOutcome == [kind |-> "notfound"]

RandomFailOutcome == [kind |-> "randomfail"]

(* one client call is recorded with the session state it was made in *)
Call(p, op, arg, resp) ==
  log' = [log EXCEPT ![p] = Append(@,
            [op |-> op, arg |-> arg, kind |-> resp.kind, titles |-> resp.titles,
             sess |-> sess[p], open |-> sess[p] \in openSessions])]

(* the coroutine suspends at its next await *)
Goto(p, next) ==
  /\ pc' = [pc EXCEPT ![p] = next]
  /\ UNCHANGED <<delivered, raised, openSessions>>

(* followup.send, then the async-with block is left *)
Deliver(p, out) ==
  /\ pc' = [pc EXCEPT ![p] = "done"]
  /\ delivered' = [delivered EXCEPT ![p] = Append(@, out)]
  /\ openSessions' = CloseSession(openSessions, sess[p])
  /\ UNCHANGED raised

(* an exception leaves the async-with block and the handler *)
Throw(p) ==
  /\ pc' = [pc EXCEPT ![p] = "done"]
  /\ raised' = [raised EXCEPT ![p] = TRUE]
  /\ openSessions' = CloseSession(openSessions, sess[p])
  /\ UNCHANGED delivered

(* what the caller of fuzzy_search does with the returned list *)
AfterCascade(p, rs) ==
  IF cmd[p] = "wikisearch" THEN Deliver(p, ListOutcome(rs))
  ELSE IF ~NoResults(rs)
       THEN IF IsConfident(rs) THEN Goto(p, "reresolve")
            ELSE Deliver(p, ListOutcome(rs))
       ELSE Deliver(p, NotFoundOutcome)

FirstStep(c) ==
  CASE c = "wiki" -> "direct"
    [] c = "wikisearch" -> "search"
    [] c = "wikirandom" -> "random"

----------------------------------------------------------------------------
(* Initial states *)

InitLocal ==
  /\ cmd = [p \in Procs |-> "wiki"]
  /\ query = [p \in Procs |-> 1]
  /\ sess = [p \in Procs |-> 0]
  /\ log = [p \in Procs |-> <<>>]
  /\ page = [p \in Procs |-> None]
  /\ title = [p \in Procs |-> 0]
  /\ results = [p \in Procs |-> <<>>]
  /\ stage2 = [p \in Procs |-> <<>>]
  /\ stage3 = [p \in Procs |-> <<>>]
  /\ delivered = [p \in Procs |-> <<>>]
  /\ raised = [p \in Procs |-> FALSE]
  /\ openSessions = {}
  /\ nextSession = 1

(* one invocation against a wiki of NumTitles pages *)
Init ==
  /\ InitLocal
  /\ pc = [p \in Procs |-> IF p = 1 THEN "idle" ELSE "off"]
  /\ wiki = [titles |-> Titles, faults |-> AllFaults]

(* concurrent invocations against a wiki of NumTitlesConc pages *)
InitConc ==
  /\ InitLocal
  /\ pc = [p \in Procs |-> "idle"]
  /\ wiki = [titles |-> ConcTitles, faults |-> ConcFaults]

----------------------------------------------------------------------------
(* Handlers *)

(* interaction.response.defer(); async with aiohttp.ClientSession() *)
Invoke(p) ==
  /\ pc[p] = "idle"
  /\ \E c \in Cmds, q \in Queries :
       /\ cmd' = [cmd EXCEPT ![p] = c]
       /\ query' = [query EXCEPT ![p] = q]
       /\ pc' = [pc EXCEPT ![p] = FirstStep(c)]
  /\ sess' = [sess EXCEPT ![p] = NewSession(nextSession)]
  /\ openSessions' = openSessions \cup {NewSession(nextSession)}
  /\ nextSession' = nextSession + 1
  /\ UNCHANGED <<log, page, title, results, stage2, stage3, delivered, raised, wiki>>

(* wiki_command: page = await wiki.get_page_extract(articulo) *)
DirectLookup(p) ==
  /\ pc[p] = "direct"
  /\ \E resp \in PageResp(wiki) :
       /\ Call(p, "get_page_extract", <<"q", query[p]>>, resp)
       /\ IF Raises(resp) THEN Throw(p) /\ UNCHANGED page
          ELSE LET pg == get_page_extract(<<"q", query[p]>>, resp)
               IN  /\ page' = [page EXCEPT ![p] = pg]
                   /\ Goto(p, IF pg # None THEN "cats" ELSE "search")
  /\ UNCHANGED <<cmd, query, sess, title, results, stage2, stage3, nextSession, wiki>>

(* wiki_command: categories = await wiki.get_categories(...); send embed *)
Categories(p) ==
  /\ pc[p] \in {"cats", "cats2", "randcats"}
  /\ \E resp \in CatResp(wiki) :
       /\ Call(p, "get_categories", page[p].title, resp)
       /\ IF Raises(resp) THEN Throw(p)
          ELSE Deliver(p, PageOutcome(page[p], get_categories(resp)))
  /\ UNCHANGED <<cmd, query, sess, page, title, results, stage2, stage3, nextSession, wiki>>

(* fuzzy_search stage 1: results = await self.search(query, limit=10) *)
Search(p) ==
  /\ pc[p] = "search"
  /\ \E resp \in ListResp(wiki) :
       /\ Call(p, "search", query[p], resp)
       /\ IF Raises(resp) THEN Throw(p) /\ UNCHANGED results
          ELSE LET rs == search(resp)
               IN  /\ results' = [results EXCEPT ![p] = rs]
                   /\ IF NoResults(rs) THEN Goto(p, Escalate("search"))
                      ELSE AfterCascade(p, rs)
  /\ UNCHANGED <<cmd, query, sess, page, title, stage2, stage3, nextSession, wiki>>

(* fuzzy_search stage 2: get_all_pages, process.extract, threshold filter *)
AllPages(p) ==
  /\ pc[p] = "allpages"
  /\ \E resp \in ListResp(wiki) :
       /\ Call(p, "get_all_pages", query[p], resp)
       /\ IF Raises(resp) THEN Throw(p) /\ UNCHANGED <<results, stage2>>
          ELSE LET all_pages == get_all_pages(resp)
                   rs == IF all_pages # <<>> THEN Stage2(query[p], all_pages) ELSE results[p]
               IN  /\ results' = [results EXCEPT ![p] = rs]
                   /\ stage2' = [stage2 EXCEPT ![p] = rs]
                   /\ IF NoResults(rs) THEN Goto(p, Escalate("allpages"))
                      ELSE AfterCascade(p, rs)
  /\ UNCHANGED <<cmd, query, sess, page, title, stage3, nextSession, wiki>>

(* fuzzy_search stage 3: search_full, process.extract, re-rank *)
SearchFull(p) ==
  /\ pc[p] = "searchfull"
  /\ \E resp \in ListResp(wiki) :
       /\ Call(p, "search_full", query[p], resp)
       /\ IF Raises(resp) THEN Throw(p) /\ UNCHANGED <<results, stage3>>
          ELSE LET full == search_full(resp)
                   rs == IF full # <<>> THEN Stage3(query[p], full) ELSE full
               IN  /\ results' = [results EXCEPT ![p] = rs]
                   /\ stage3' = [stage3 EXCEPT ![p] = rs]
                   /\ AfterCascade(p, rs)
  /\ UNCHANGED <<cmd, query, sess, page, title, stage2, nextSession, wiki>>

(* wiki_command: page = await wiki.get_page_extract(best_match["title"]) *)
Reresolve(p) ==
  /\ pc[p] = "reresolve"
  /\ \E resp \in PageResp(wiki) :
       /\ Call(p, "get_page_extract", <<"t", results[p][1].title>>, resp)
       /\ IF Raises(resp) THEN Throw(p) /\ UNCHANGED page
          ELSE LET pg == get_page_extract(<<"t", results[p][1].title>>, resp)
               IN  /\ page' = [page EXCEPT ![p] = pg]
                   /\ IF pg # None THEN Goto(p, "cats2")
                      ELSE Deliver(p, ListOutcome(results[p]))
  /\ UNCHANGED <<cmd, query, sess, title, results, stage2, stage3, nextSession, wiki>>

(* get_random_page: the list=random request *)
Random(p) ==
  /\ pc[p] = "random"
  /\ \E resp \in RandomResp(wiki) :
       /\ Call(p, "get_random_page", <<>>, resp)
       /\ IF Raises(resp) THEN Throw(p) /\ UNCHANGED title
          ELSE IF resp.kind = "ok"
               THEN /\ title' = [title EXCEPT ![p] = resp.titles[1]]
                    /\ Goto(p, "randextract")
               ELSE /\ Deliver(p, RandomFailOutcome)
                    /\ UNCHANGED title
  /\ UNCHANGED <<cmd, query, sess, page, results, stage2, stage3, nextSession, wiki>>

(* get_random_page: return await self.get_page_extract(title) *)
RandomExtract(p) ==
  /\ pc[p] = "randextract"
  /\ \E resp \in PageResp(wiki) :
       /\ Call(p, "get_page_extract", <<"t", title[p]>>, resp)
       /\ IF Raises(resp) THEN Throw(p) /\ UNCHANGED page
          ELSE LET pg == get_page_extract(<<"t", title[p]>>, resp)
               IN  /\ page' = [page EXCEPT ![p] = pg]
                   /\ IF pg # None THEN Goto(p, "randcats")
                      ELSE Deliver(p, RandomFailOutcome)
  /\ UNCHANGED <<cmd, query, sess, title, results, stage2, stage3, nextSession, wiki>>

----------------------------------------------------------------------------
Next ==
  \E p \in Procs :
    \/ Invoke(p)
    \/ DirectLookup(p)
    \/ Categories(p)
    \/ Search(p)
    \/ AllPages(p)
    \/ SearchFull(p)
    \/ Reresolve(p)
    \/ Random(p)
    \/ RandomExtract(p)

Spec == Init /\ [][Next]_vars

SpecConc == InitConc /\ [][Next]_vars

----------------------------------------------------------------------------
(* Reading the call log *)

Range(s) == {s[i] : i \in 1..Len(s)}

Started(p) == pc[p] \notin {"idle", "off"}

Done(p) == pc[p] = "done"

Calls(p, op) == {i \in DOMAIN log[p] : log[p][i].op = op}

(* the exchange handed the client a non-empty list *)
NonEmptyAnswer(e) == e.kind = "ok" /\ e.titles # <<>>

(* the exchange made the client method raise *)
Raised(e) == e.kind \in {"neterr", "bad"}

IsDirect(p, e) == e.op = "get_page_extract" /\ e.arg = <<"q", query[p]>>

IsReresolve(p, e) ==
  /\ e.op = "get_page_extract"
  /\ results[p] # <<>>
  /\ e.arg = <<"t", results[p][1].title>>

OutcomeKinds == {"page", "list", "notfound"}

----------------------------------------------------------------------------
(* C1: every invocation of wiki_command that has ended has delivered        *)
(* exactly one outcome, a page, a non-empty candidate list or "not found",  *)
(* and no exception has left the handler.                                   *)
C1_ExactlyOneOutcome ==
  \A p \in Procs :
    (Done(p) /\ cmd[p] = "wiki") =>
      /\ ~raised[p]
      /\ Len(delivered[p]) = 1
      /\ delivered[p][1].kind \in OutcomeKinds
      /\ delivered[p][1].kind = "list" => delivered[p][1].list # <<>>

(* C2: escalation ladder.  get_all_pages is called only after search came  *)
(* back empty; search_full only after search came back empty and the title *)
(* sample was empty or held no title reaching the threshold; a non-empty   *)
(* search is followed by neither; in wiki_command the cascade starts only  *)
(* after the direct lookup did not resolve.                                *)
C2_EscalationLadder ==
  \A p \in Procs : \A i \in DOMAIN log[p] :
    LET e == log[p][i] IN
      /\ e.op = "get_all_pages" =>
           \E j \in 1..(i - 1) : log[p][j].op = "search" /\ ~NonEmptyAnswer(log[p][j])
      /\ e.op = "search_full" =>
           /\ \E j \in 1..(i - 1) : log[p][j].op = "search" /\ ~NonEmptyAnswer(log[p][j])
           /\ \E j \in 1..(i - 1) :
                /\ log[p][j].op = "get_all_pages"
                /\ \A k \in DOMAIN log[p][j].titles :
                     WRatio(query[p], log[p][j].titles[k]) < Threshold
      /\ (e.op = "search" /\ NonEmptyAnswer(e)) =>
           \A j \in DOMAIN log[p] : log[p][j].op \notin {"get_all_pages", "search_full"}
      /\ (e.op = "search" /\ cmd[p] = "wiki") =>
           /\ i = 2
           /\ IsDirect(p, log[p][1])
           /\ log[p][1].kind # "ok"

(* C2 witness: the third stage ran after a non-empty title sample in which *)
(* no title reached the threshold.                                         *)
C2_Witness ==
  \E p \in Procs : \E i, j \in DOMAIN log[p] :
    /\ log[p][i].op = "search_full"
    /\ log[p][j].op = "get_all_pages"
    /\ log[p][j].titles # <<>>

(* C3: in wiki_command, when the cascade's first candidate has score >= 85 *)
(* the title is looked up again; the outcome is that page if the lookup    *)
(* succeeds and the candidate list if it fails.  Below 85, or without a    *)
(* score, no second lookup is made and the list is delivered.              *)
C3_ConfidentMatch ==
  \A p \in Procs :
    (Done(p) /\ cmd[p] = "wiki" /\ results[p] # <<>>) =>
      IF GetScore(results[p][1], 0) >= Confident
      THEN \E i \in DOMAIN log[p] :
             /\ IsReresolve(p, log[p][i])
             /\ IF log[p][i].kind = "ok"
                THEN /\ Len(delivered[p]) = 1
                     /\ delivered[p][1].kind = "page"
                     /\ delivered[p][1].page.title = <<"t", results[p][1].title>>
                ELSE delivered[p] = <<ListOutcome(results[p])>>
      ELSE /\ \A i \in DOMAIN log[p] : ~IsReresolve(p, log[p][i])
           /\ delivered[p] = <<ListOutcome(results[p])>>

(* C4: no client call raises, whatever the exchange: a connection error,   *)
(* a status other than 200 and a malformed payload all count as no result. *)
C4_ClientNeverRaises ==
  \A p \in Procs : \A i \in DOMAIN log[p] :
    log[p][i].kind \in AllFaults => ~raised[p]

(* every stage of the cascade was run and came back empty *)
CascadeExhausted(p) ==
  /\ \E i \in Calls(p, "search") : ~NonEmptyAnswer(log[p][i])
  /\ \E i \in Calls(p, "get_all_pages") :
       \A k \in DOMAIN log[p][i].titles :
         WRatio(query[p], log[p][i].titles[k]) < Threshold
  /\ \E i \in Calls(p, "search_full") : ~NonEmptyAnswer(log[p][i])

(* C5: wiki_command delivers "not found" exactly when the direct lookup    *)
(* did not resolve and the three stages all came back empty; otherwise it  *)
(* delivers a page or a candidate list.                                    *)
C5_NotFoundIff ==
  \A p \in Procs :
    (Done(p) /\ cmd[p] = "wiki") =>
      /\ delivered[p] # <<>>
      /\ delivered[p][1].kind = "notfound" <=>
           (log[p][1].kind # "ok" /\ CascadeExhausted(p))
      /\ delivered[p][1].kind # "notfound" => delivered[p][1].kind \in {"page", "list"}

C7_ThresholdMonotonic ==
  \A p \in Procs :
    /\ \A k \in DOMAIN stage2[p] :
         /\ stage2[p][k].score >= Threshold
         /\ WRatio(query[p], stage2[p][k].title) >= Threshold
         /\ stage2[p][k].score = WRatio(query[p], stage2[p][k].title)
    /\ \A i \in Calls(p, "get_all_pages") :
         /\ \A k \in DOMAIN stage2[p] : stage2[p][k].title \in Range(log[p][i].titles)
         /\ (\A t \in Range(log[p][i].titles) : WRatio(query[p], t) < Threshold)
              => stage2[p] = <<>>
         /\ (~Raised(log[p][i]) /\ Len(log[p][i].titles) <= ExtractLimit) =>
              \A t \in Range(log[p][i].titles) :
                WRatio(query[p], t) >= Threshold
                  => \E k \in DOMAIN stage2[p] : stage2[p][k].title = t

(* C7 witness: stage 2 kept some titles and the threshold rejected another *)
C7_Witness ==
  \E p \in Procs : \E i \in Calls(p, "get_all_pages") :
    /\ stage2[p] # <<>>
    /\ Len(log[p][i].titles) <= ExtractLimit
    /\ \E t \in Range(log[p][i].titles) : WRatio(query[p], t) < Threshold

PositionIn(rs, t) == CHOOSE j \in DOMAIN rs : rs[j].title = t

(* C8: every candidate of stage 3 is a search_full result with unchanged   *)
(* description and url and with the score computed for its title; the      *)
(* candidates are in descending score order (equal scores in API order);   *)
(* a search_full result is missing only if it did not make the re-rank     *)
(* output, that is five results rank at least as high.                     *)
C8_Stage3Rerank ==
  \A p \in Procs : \A i \in Calls(p, "search_full") :
    ~Raised(log[p][i]) =>
      LET full == search_full(log[p][i])
          out == stage3[p]
          q == query[p]
      IN  /\ \A k \in DOMAIN out :
                /\ "score" \in DOMAIN out[k]
                /\ out[k].score = WRatio(q, out[k].title)
                /\ \E j \in DOMAIN full :
                     /\ full[j].title = out[k].title
                     /\ full[j].description = out[k].description
                     /\ full[j].url = out[k].url
          /\ \A k, l \in DOMAIN out :
                k < l =>
                  /\ out[k].title # out[l].title
                  /\ out[k].score >= out[l].score
                  /\ out[k].score = out[l].score =>
                       PositionIn(full, out[k].title) < PositionIn(full, out[l].title)
          /\ \A j \in DOMAIN full :
                (\A k \in DOMAIN out : out[k].title # full[j].title) =>
                  /\ Len(out) = ExtractLimit
                  /\ \A k \in DOMAIN out : out[k].score >= WRatio(q, full[j].title)

(* C8 witness: more results than the re-rank keeps, one of them kept with  *)
(* a score below the stage-2 threshold, and not in API order.              *)
C8_Witness ==
  \E p \in Procs : \E i \in Calls(p, "search_full") :
    /\ Len(log[p][i].titles) > ExtractLimit
    /\ Len(stage3[p]) = ExtractLimit
    /\ \E k \in DOMAIN stage3[p] : stage3[p][k].score < Threshold
    /\ stage3[p][1].title # log[p][i].titles[1]

(* C9: no retry.  Within one invocation search, get_all_pages, search_full *)
(* and the random request are each made at most once, the page lookup at   *)
(* most once directly and once for a confident candidate, and once the     *)
(* cascade has gone past stage 1 search has been made exactly once.        *)
C9_NoRetry ==
  \A p \in Procs :
    /\ Cardinality(Calls(p, "search")) <= 1
    /\ Cardinality(Calls(p, "get_all_pages")) <= 1
    /\ Cardinality(Calls(p, "search_full")) <= 1
    /\ Cardinality(Calls(p, "get_random_page")) <= 1
    /\ Cardinality(Calls(p, "get_categories")) <= 1
    /\ Cardinality({i \in DOMAIN log[p] : IsDirect(p, log[p][i])}) <= 1
    /\ Cardinality(Calls(p, "get_page_extract")) <= (IF cmd[p] = "wiki" THEN 2 ELSE 1)
    /\ (Calls(p, "get_all_pages") # {} \/ Calls(p, "search_full") # {}
          \/ pc[p] \in {"allpages", "searchfull", "reresolve", "cats2"})
         => Cardinality(Calls(p, "search")) = 1
    /\ (Done(p) /\ ~raised[p] /\ cmd[p] = "wikisearch") => Cardinality(Calls(p, "search")) = 1

(* C9 witness: an invocation ended after stages failed, each tried once *)
C9_Witness ==
  \E p \in Procs :
    /\ Done(p)
    /\ \E i \in Calls(p, "search") : log[p][i].kind = "non200"
    /\ \E i \in Calls(p, "get_all_pages") : log[p][i].kind = "missing"
    /\ \E i \in Calls(p, "search_full") : log[p][i].kind = "non200"

(* C10: an invocation owns one session from its start to its end: every    *)
(* client call is made on it while it is open, it is closed once the       *)
(* invocation is over however it ends, no session outlives its invocation  *)
(* and no two invocations have the same session.                           *)
C10_SessionLifecycle ==
  /\ \A p \in Procs :
       /\ \A i \in DOMAIN log[p] : log[p][i].open /\ log[p][i].sess = sess[p]
       /\ (Started(p) /\ ~Done(p)) => sess[p] \in openSessions
       /\ Done(p) => sess[p] \notin openSessions
  /\ \A s \in openSessions : \E p \in Procs : Started(p) /\ ~Done(p) /\ sess[p] = s
  /\ \A p, r \in Procs : (p # r /\ Started(p) /\ Started(r)) => sess[p] # sess[r]

(* C10 witness: the invocation that started first has ended on an          *)
(* exception while the other one is in the middle of its run, about to     *)
(* look its confident candidate up.                                        *)
C10_Witness ==
  \E p, r \in Procs :
    /\ p # r
    /\ Done(p) /\ raised[p] /\ sess[p] < sess[r]
    /\ pc[r] = "reresolve"
    /\ Len(log[r]) >= 3

====
